---------------------------- MODULE Spec2Model ----------------------------
(***************************************************************************)
(* Model of src/app.py (FedEx report automation, phase 1).                 *)
(*                                                                         *)
(*   - fill_loc_test_data : the key reconciliation of the "LOC test data"  *)
(*     sheet (columns A:E looked up from I:J, K:N filled);                 *)
(*   - the Trailer and Network table formulas that build_workbook attaches *)
(*     to the "Shipment Data" table, evaluated as a spreadsheet engine     *)
(*     evaluates them;                                                     *)
(*   - main : the "Generate Excel" pipeline (read, validate, build, offer  *)
(*     the download).                                                      *)
(*                                                                         *)
(* Text is a sequence of one-character strings, so that strip, upper and   *)
(* LEFT are computed and not assumed.  A cell is a record with a kind:     *)
(* null (NaN / blank), str, num (a rational n/d, d > 0) or inf (n = sign). *)
(***************************************************************************)
EXTENDS Integers, Sequences, FiniteSets, TLC

VARIABLES
    loc_test_df,    \* fill_loc_test_data: the dataset handed to the function
    loc_out,        \* fill_loc_test_data: its outcome (pending, returned df, ValueError)
    row,            \* Shipment Data: one table row (Active/Historical ID, Order Number)
    calc,           \* Shipment Data: the values the formulas of that row evaluate to
    raw_file,       \* main: the file in the "raw_upload" uploader (or None)
    criteria_file,  \* main: the file in the "criteria_upload" uploader (or None)
    loc_test_file,  \* main: the file in the "loc_test_upload" uploader (or None)
    page            \* main: what the script run rendered (messages, download button)

vars == <<loc_test_df, loc_out, row, calc, raw_file, criteria_file, loc_test_file, page>>

(***************************************************************************)
(* Cells and text                                                          *)
(***************************************************************************)
NullCell == [k |-> "null", s |-> <<>>, n |-> 0, d |-> 0]
Str(t)   == [k |-> "str", s |-> t, n |-> 0, d |-> 0]
Num(i)   == [k |-> "num", s |-> <<>>, n |-> i, d |-> 1]
Frac(a, b) == [k |-> "num", s |-> <<>>, n |-> a, d |-> b]
Inf(sign)  == [k |-> "inf", s |-> <<>>, n |-> sign, d |-> 0]

LowerLetters == <<"a","b","c","d","e","f","g","h","i","j","k","l","m",
                  "n","o","p","q","r","s","t","u","v","w","x","y","z">>
UpperLetters == <<"A","B","C","D","E","F","G","H","I","J","K","L","M",
                  "N","O","P","Q","R","S","T","U","V","W","X","Y","Z">>
DigitChars   == <<"0","1","2","3","4","5","6","7","8","9">>

\* str.upper() on one character
UpperChar(c) ==
    IF \E i \in DOMAIN LowerLetters : LowerLetters[i] = c
    THEN UpperLetters[CHOOSE i \in DOMAIN LowerLetters : LowerLetters[i] = c]
    ELSE c

\* str.upper()
upper(t) == [i \in DOMAIN t |-> UpperChar(t[i])]

RECURSIVE lstrip(_)
lstrip(t) == IF t # <<>> /\ Head(t) = " " THEN lstrip(Tail(t)) ELSE t

RECURSIVE rstrip(_)
rstrip(t) ==
    IF t # <<>> /\ t[Len(t)] = " " THEN rstrip(SubSeq(t, 1, Len(t) - 1)) ELSE t

\* str.strip()
strip(t) == rstrip(lstrip(t))

RECURSIVE Digits(_)
Digits(i) ==
    IF i < 10 THEN <<DigitChars[i + 1]>>
    ELSE Digits(i \div 10) \o <<DigitChars[(i % 10) + 1]>>

\* Series.astype(str) on one cell: NaN becomes the text "nan"
astype_str(c) ==
    CASE c.k = "str" -> c.s
      [] c.k = "num" -> IF c.n < 0 THEN <<"-">> \o Digits(0 - c.n) ELSE Digits(c.n)
      [] OTHER       -> <<"n", "a", "n">>

\* Series.notna() on one cell
notna(c) == c.k # "null"

IsDigit(ch) == \E i \in DOMAIN DigitChars : DigitChars[i] = ch
DigitVal(ch) == (CHOOSE i \in DOMAIN DigitChars : DigitChars[i] = ch) - 1

RECURSIVE ParseNat(_)
ParseNat(t) ==
    IF t = <<>> THEN 0
    ELSE 10 * ParseNat(SubSeq(t, 1, Len(t) - 1)) + DigitVal(t[Len(t)])

\* pd.to_numeric(errors="coerce") on one cell.  Text over the model's alphabet
\* (letters, digits, space) is numeric exactly when it is a run of digits.
to_numeric(c) ==
    CASE c.k = "num" -> c
      [] c.k = "str" /\ c.s # <<>> /\ (\A i \in DOMAIN c.s : IsDigit(c.s[i]))
                     -> Num(ParseNat(c.s))
      [] OTHER       -> NullCell

(***************************************************************************)
(* fill_loc_test_data                                                      *)
(***************************************************************************)
\* the column count the function needs (column N, index 13)
MinLocColumns == 14

\* .astype(str).str.strip().str.upper(): the matching key of a key cell
\* (variant: the key without .str.upper(), which tells "a" from "A")
key_no_upper(c) == strip(astype_str(c))

key(c) == upper(strip(astype_str(c)))

\* "rows that look like real data" / valid_mask: both cells non-null and
\* non-blank after strip
\* (variant: the notna() tests alone, which take a blank key for a key)
both_keys_notna_only(a, b) == notna(a) /\ notna(b)

both_keys(a, b) ==
    /\ notna(a)
    /\ notna(b)
    /\ strip(astype_str(a)) # <<>>
    /\ strip(astype_str(b)) # <<>>

\* base: columns 0..4 of the qualifying rows, keys added, numerics coerced
base(rows) ==
    LET q == SelectSeq(rows, LAMBDA r : both_keys(r.c0, r.c1))
    IN  [i \in 1..Len(q) |->
            [Carrier_key |-> key(q[i].c0), LOC_key |-> key(q[i].c1),
             TRUE_ |-> to_numeric(q[i].c2), FALSE_ |-> to_numeric(q[i].c3),
             Grand_Total |-> to_numeric(q[i].c4)]]

\* DataFrame.drop_duplicates(): a row is dropped when an earlier row equals it
\* in every column (NaN equal to NaN); the first occurrence is kept
RECURSIVE drop_duplicates(_)
drop_duplicates(t) ==
    IF t = <<>> THEN <<>>
    ELSE LET init == SubSeq(t, 1, Len(t) - 1)
             last == t[Len(t)]
         IN  IF \E i \in DOMAIN init : init[i] = last
             THEN drop_duplicates(init)
             ELSE Append(drop_duplicates(init), last)

base_map(rows) == drop_duplicates(base(rows))

\* valid_mask over the rows (columns 8 and 9)
valid_mask(rows) == [i \in 1..Len(rows) |-> both_keys(rows[i].c8, rows[i].c9)]

\* df.index[valid_mask]
RECURSIVE target_idx_upto(_, _)
target_idx_upto(mask, n) ==
    IF n = 0 THEN <<>>
    ELSE IF mask[n] THEN Append(target_idx_upto(mask, n - 1), n)
         ELSE target_idx_upto(mask, n - 1)

target_idx(rows) == target_idx_upto(valid_mask(rows), Len(rows))

\* the values a left merge gives a left row without a match
\* (variant: zeros in place of NaN, as a fillna(0) after the merge would give)
zero_row == [TRUE_ |-> Num(0), FALSE_ |-> Num(0), Grand_Total |-> Num(0)]

nan_row == [TRUE_ |-> NullCell, FALSE_ |-> NullCell, Grand_Total |-> NullCell]

\* the right rows of one left key, in the right table's order; one all-NaN row
\* when there is none (how="left")
merge_one(ck, lk, right) ==
    LET m == SelectSeq(right,
                 LAMBDA b : b.Carrier_key = ck /\ b.LOC_key = lk)
    IN  IF m = <<>> THEN <<nan_row>>
        ELSE [i \in 1..Len(m) |->
                 [TRUE_ |-> m[i].TRUE_, FALSE_ |-> m[i].FALSE_,
                  Grand_Total |-> m[i].Grand_Total]]

\* sub.loc[valid_mask, keys].merge(base_map, on=keys, how="left"): the left
\* order is kept
RECURSIVE merge_upto(_, _, _)
merge_upto(rows, idx, n) ==
    IF n = 0 THEN <<>>
    ELSE merge_upto(rows, idx, n - 1)
           \o merge_one(key(rows[idx[n]].c8), key(rows[idx[n]].c9), base_map(rows))

merged(rows) == merge_upto(rows, target_idx(rows), Len(target_idx(rows)))

Abs(i) == IF i < 0 THEN 0 - i ELSE i

RECURSIVE Gcd(_, _)
Gcd(a, b) == IF b = 0 THEN a ELSE Gcd(b, a % b)

\* Series / Series on one pair of numeric-or-NaN cells (float division):
\* x/0 is inf or -inf, 0/0 and anything with NaN is NaN
truediv(a, b) ==
    CASE a.k # "num" \/ b.k # "num" -> NullCell
      [] b.n = 0 /\ a.n > 0 -> Inf(1)
      [] b.n = 0 /\ a.n < 0 -> Inf(-1)
      [] b.n = 0 /\ a.n = 0 -> NullCell
      [] OTHER ->
            LET num == a.n * b.d * (IF b.n < 0 THEN -1 ELSE 1)
                den == a.d * Abs(b.n)
                g   == Gcd(Abs(num), den)
            IN  Frac(num \div g, den \div g)

\* .replace([pd.NA, pd.NaT, inf, -inf], pd.NA) on one cell
\* (variant: no replace, the quotient is written as computed)
replace_inf_missing(c) == c

replace_inf(c) == IF c.k \in {"inf", "null"} THEN NullCell ELSE c

tracked_pct(m) == replace_inf(truediv(m.TRUE_, m.Grand_Total))

\* position of row i among the valid rows
RECURSIVE rank(_, _)
rank(mask, i) ==
    IF i = 0 THEN 0 ELSE rank(mask, i - 1) + (IF mask[i] THEN 1 ELSE 0)

\* The function.  df = [ncols, rows]; the result says whether it returned and
\* what.  The assignments of lines 118-126 raise ValueError when merged has
\* another length than target_idx.
fill_loc_test_data(df) ==
    IF df.ncols < MinLocColumns
    THEN [status |-> "ValueError", why |-> "columns", df |-> df]
    ELSE LET rows == df.rows
             mask == valid_mask(rows)
             mg   == merged(rows)
         IN  IF Len(mg) # Len(target_idx(rows))
             THEN [status |-> "ValueError", why |-> "length", df |-> df]
             ELSE [status |-> "returned", why |-> "",
                   df |-> [df EXCEPT !.rows =
                       [i \in 1..Len(rows) |->
                           IF mask[i]
                           THEN LET m == mg[rank(mask, i)]
                                IN  [rows[i] EXCEPT
                                        !.c10 = m.TRUE_,
                                        !.c11 = m.FALSE_,
                                        !.c12 = m.Grand_Total,
                                        !.c13 = tracked_pct(m)]
                           ELSE rows[i]]]]


(***************************************************************************)
(* The datasets fill_loc_test_data is run on                               *)
(***************************************************************************)
\* rows of a generated dataset
NumRows == 2

\* columns A:E of a row: the key cells varied (null, blank, other case and
\* padding) over one set of counts, and the counts varied (zero and missing
\* totals, text in a numeric column, the same key with other counts) over one key
BaseParts ==
    {[c0 |-> c.a, c1 |-> c.b, c2 |-> Num(1), c3 |-> Num(1), c4 |-> Num(2)] :
        c \in {[a |-> Str(<<" ", "A", " ">>), b |-> Str(<<"X">>)],
               [a |-> NullCell, b |-> Str(<<"x">>)],
               [a |-> Str(<<"a">>), b |-> Str(<<" ">>)]}}
    \cup
    {[c0 |-> Str(<<"a">>), c1 |-> Str(<<"x">>), c2 |-> n.t, c3 |-> n.f, c4 |-> n.g] :
        n \in {[t |-> Num(1), f |-> Num(1), g |-> Num(2)],
               [t |-> Num(2), f |-> Num(0), g |-> Num(2)],
               [t |-> Num(1), f |-> Num(0), g |-> Num(0)],
               [t |-> Num(0), f |-> Num(0), g |-> Num(0)],
               [t |-> Str(<<"n", "a">>), f |-> Str(<<"1">>), g |-> Num(2)],
               [t |-> Num(1), f |-> Num(1), g |-> NullCell]}}

\* columns I:J of a row: keys that match, keys that match nothing, and the
\* four ways of being ineligible
SubParts ==
    {[c8 |-> Str(<<"a">>), c9 |-> Str(<<"x">>)],
     [c8 |-> Str(<<" ", "A">>), c9 |-> Str(<<"X", " ">>)],
     [c8 |-> Str(<<"b">>), c9 |-> Str(<<"x">>)],
     [c8 |-> NullCell, c9 |-> Str(<<"x">>)],
     [c8 |-> Str(<<" ">>), c9 |-> Str(<<"x">>)],
     [c8 |-> Str(<<"a">>), c9 |-> NullCell],
     [c8 |-> Str(<<"a">>), c9 |-> Str(<<>>)]}

\* columns K:N hold earlier content in every generated row
MakeRow(b, u) ==
    [c0 |-> b.c0, c1 |-> b.c1, c2 |-> b.c2, c3 |-> b.c3, c4 |-> b.c4,
     c8 |-> u.c8, c9 |-> u.c9,
     c10 |-> Str(<<"k">>), c11 |-> Str(<<"l">>), c12 |-> Num(7), c13 |-> Str(<<"n">>)]

RowInputs == {MakeRow(b, u) : b \in BaseParts, u \in SubParts}

\* a sheet that ends before column N: the cells of K:N do not exist
NarrowRow ==
    [c0 |-> Str(<<"a">>), c1 |-> Str(<<"x">>), c2 |-> Num(1), c3 |-> Num(1), c4 |-> Num(2),
     c8 |-> Str(<<"a">>), c9 |-> Str(<<"x">>),
     c10 |-> NullCell, c11 |-> NullCell, c12 |-> NullCell, c13 |-> NullCell]

LocInputs ==
    {[ncols |-> w, rows |-> r] :
        w \in {MinLocColumns - 4, MinLocColumns - 1}, r \in {<<>>, <<NarrowRow>>}}
    \cup
    {[ncols |-> w, rows |-> <<>>] : w \in {MinLocColumns, MinLocColumns + 1}}
    \cup
    {[ncols |-> MinLocColumns, rows |-> r] : r \in [1..NumRows -> RowInputs]}

PendingOut == [status |-> "pending", why |-> "", df |-> [ncols |-> 0, rows |-> <<>>]]

(***************************************************************************)
(* Idle values of the state the other specifications use                   *)
(***************************************************************************)
None == [kind |-> "none", corrupt |-> FALSE, sheets |-> <<>>]
NoRow == [active |-> NullCell, historical |-> NullCell, order |-> NullCell]
NoCalc == [done |-> FALSE, Trailer |-> NullCell, Network |-> NullCell]
NoBook ==
    [sheets |-> <<>>, criteria |-> "", columns |-> <<>>, extra |-> 0,
     loc |-> [ncols |-> 0, rows |-> <<>>]]
EmptyPage == [clicked |-> FALSE, messages |-> <<>>, offered |-> FALSE, data |-> NoBook]

(***************************************************************************)
(* Spec: fill_loc_test_data on every generated dataset                     *)
(***************************************************************************)
Init ==
    /\ loc_test_df \in LocInputs
    /\ loc_out = PendingOut
    /\ row = NoRow
    /\ calc = NoCalc
    /\ raw_file = None
    /\ criteria_file = None
    /\ loc_test_file = None
    /\ page = EmptyPage

FillLocTestData ==
    /\ loc_out.status = "pending"
    /\ loc_out' = fill_loc_test_data(loc_test_df)
    /\ UNCHANGED <<loc_test_df, row, calc, raw_file, criteria_file, loc_test_file, page>>

Next == FillLocTestData

Spec == Init /\ [][Next]_vars


(***************************************************************************)
(* Claims about fill_loc_test_data (checked under Spec)                    *)
(***************************************************************************)
InRows  == loc_test_df.rows
OutRows == loc_out.df.rows
Returned == loc_out.status = "returned"

\* a key cell that is null or empty after trimming
Blank(c) == c.k = "null" \/ (c.k = "str" /\ \A i \in DOMAIN c.s : c.s[i] = " ")
\* the trimmed, upper-cased text of a key cell
Norm(c) == upper(strip(c.s))

Eligible(r)   == ~Blank(r.c8) /\ ~Blank(r.c9)
Qualifying(r) == ~Blank(r.c0) /\ ~Blank(r.c1)
SameKey(r, b) == Norm(r.c8) = Norm(b.c0) /\ Norm(r.c9) = Norm(b.c1)
\* row i is eligible and base row j carries its key
Matches(i, j) ==
    Eligible(InRows[i]) /\ Qualifying(InRows[j]) /\ SameKey(InRows[i], InRows[j])
Unmatched(i) ==
    Eligible(InRows[i]) /\ ~\E j \in DOMAIN InRows : Matches(i, j)

\* C1: when fill_loc_test_data returns, every eligible row whose trimmed,
\* upper-cased key pair is the key pair of a qualifying base row has column 10 =
\* that base row's TRUE, column 11 = its FALSE and column 12 = its Grand Total,
\* each numeric or absent; case and surrounding blanks do not matter.
C1_MatchedValues ==
    Returned =>
        \A i \in DOMAIN InRows : \A j \in DOMAIN InRows :
            Matches(i, j) =>
                /\ OutRows[i].c10 = to_numeric(InRows[j].c2)
                /\ OutRows[i].c11 = to_numeric(InRows[j].c3)
                /\ OutRows[i].c12 = to_numeric(InRows[j].c4)
                /\ \A c \in {OutRows[i].c10, OutRows[i].c11, OutRows[i].c12} :
                       c.k \in {"num", "null"}

\* a returned run in which a key written " A"/"X " took the counts of the base
\* row written "a"/"x"
C1_Witness ==
    /\ Returned
    /\ \E i \in DOMAIN InRows : \E j \in DOMAIN InRows :
          /\ Matches(i, j)
          /\ InRows[i].c8 # InRows[j].c0
          /\ InRows[i].c9 # InRows[j].c1
          /\ OutRows[i].c10.k = "num"
          /\ OutRows[i].c10 # InRows[i].c10

\* C2: for every eligible matched row column 13 is Tracked / Grand Total when
\* both are present and Grand Total is not zero; otherwise (zero or absent
\* total, absent Tracked, undefined or infinite quotient) it is absent: never
\* an infinity, never a zero standing for a missing quotient.
C2_TrackedPct ==
    Returned =>
        \A i \in DOMAIN InRows : \A j \in DOMAIN InRows :
            Matches(i, j) =>
                LET t == to_numeric(InRows[j].c2)
                    g == to_numeric(InRows[j].c4)
                    p == OutRows[i].c13
                IN  IF t.k = "num" /\ g.k = "num" /\ g.n # 0
                    THEN p.k = "num" /\ p.d > 0 /\ p.n * g.n * t.d = t.n * p.d * g.d
                    ELSE p = NullCell

\* a returned run in which a matched row had Tracked 1 and Grand Total 0 (the
\* quotient is infinite) and column 13 came out absent
C2_Witness ==
    /\ Returned
    /\ \E i \in DOMAIN InRows : \E j \in DOMAIN InRows :
          /\ Matches(i, j)
          /\ to_numeric(InRows[j].c2) = Num(1)
          /\ to_numeric(InRows[j].c4) = Num(0)
          /\ InRows[i].c13 # NullCell
          /\ OutRows[i].c13 = NullCell

\* C3: a row whose column-8 or column-9 key is null or empty after trimming
\* keeps columns 10..13 exactly as they were.
C3_IneligibleUntouched ==
    Returned =>
        \A i \in DOMAIN InRows :
            ~Eligible(InRows[i]) =>
                /\ OutRows[i].c10 = InRows[i].c10
                /\ OutRows[i].c11 = InRows[i].c11
                /\ OutRows[i].c12 = InRows[i].c12
                /\ OutRows[i].c13 = InRows[i].c13

\* a returned run with a blank-keyed row holding content, next to a row the
\* function did fill
C3_Witness ==
    /\ Returned
    /\ \E i \in DOMAIN InRows : \E e \in DOMAIN InRows :
          /\ InRows[i].c8.k = "str" /\ Blank(InRows[i].c8)
          /\ InRows[i].c10 # NullCell
          /\ Eligible(InRows[e])
          /\ OutRows[e].c10 # InRows[e].c10

\* C4 as stated: an eligible row whose key is not in the base map keeps the
\* content of columns 10, 11 and 12.
C4_UnmatchedKept ==
    Returned =>
        \A i \in DOMAIN InRows :
            Unmatched(i) =>
                /\ OutRows[i].c10 = InRows[i].c10
                /\ OutRows[i].c11 = InRows[i].c11
                /\ OutRows[i].c12 = InRows[i].c12

\* C4 amended: an eligible row whose key is not in the base map has columns
\* 10, 11, 12 and 13 overwritten with absent values.
C4_UnmatchedBlanked ==
    Returned =>
        \A i \in DOMAIN InRows :
            Unmatched(i) =>
                /\ OutRows[i].c10 = NullCell
                /\ OutRows[i].c11 = NullCell
                /\ OutRows[i].c12 = NullCell
                /\ OutRows[i].c13 = NullCell

\* a returned run with an eligible, unmatched row that held content in K:M
C4_Witness ==
    /\ Returned
    /\ \E i \in DOMAIN InRows :
          /\ Unmatched(i)
          /\ InRows[i].c10 # NullCell
          /\ InRows[i].c11 # NullCell
          /\ InRows[i].c12 # NullCell

\* C5: the call raises exactly when the dataset has fewer than 14 columns;
\* otherwise it returns a dataset with the same rows in the same order (keys
\* and base columns untouched).
C5_RaisesOnlyWhenNarrow ==
    loc_out.status # "pending" =>
        /\ (loc_out.status = "ValueError") <=> (loc_test_df.ncols < MinLocColumns)
        /\ Returned =>
              /\ Len(OutRows) = Len(InRows)
              /\ \A i \in DOMAIN InRows :
                    /\ OutRows[i].c0 = InRows[i].c0 /\ OutRows[i].c1 = InRows[i].c1
                    /\ OutRows[i].c8 = InRows[i].c8 /\ OutRows[i].c9 = InRows[i].c9

\* C6: the base map holds at most one entry per normalized (Carrier Name, LOC)
\* key, also when the rows sharing a key differ in their counts.
C6_BaseMapUniquePerKey ==
    loc_out.status # "pending" =>
        LET bm == base_map(InRows)
        IN  \A i \in DOMAIN bm : \A j \in DOMAIN bm :
                (bm[i].Carrier_key = bm[j].Carrier_key /\ bm[i].LOC_key = bm[j].LOC_key)
                    => i = j


(***************************************************************************)
(* The table formulas of "Shipment Data" (build_workbook), as a            *)
(* spreadsheet engine evaluates them on one row.  Values are cells; a      *)
(* boolean is the cell Bool(b), an error value the cell ErrCell.           *)
(***************************************************************************)
ErrCell == [k |-> "err", s |-> <<>>, n |-> 0, d |-> 0]
Bool(b) == [k |-> "bool", s |-> <<>>, n |-> IF b THEN 1 ELSE 0, d |-> 0]

\* the text a text function sees in a cell: a blank cell is "", a number its digits
xl_text(c) ==
    CASE c.k = "str" -> c.s
      [] c.k = "num" -> IF c.n < 0 THEN <<"-">> \o Digits(0 - c.n) ELSE Digits(c.n)
      [] OTHER       -> <<>>

\* LEFT(c, n): the first n characters, all of them when there are fewer
XL_LEFT(c, n) ==
    IF c.k = "err" THEN c
    ELSE LET t == xl_text(c)
         IN  Str(SubSeq(t, 1, IF Len(t) < n THEN Len(t) ELSE n))

\* runs of spaces inside the text become one space
RECURSIVE squeeze(_)
squeeze(t) ==
    IF Len(t) < 2 THEN t
    ELSE IF t[1] = " " /\ t[2] = " " THEN squeeze(Tail(t))
         ELSE <<t[1]>> \o squeeze(Tail(t))

\* TRIM(c): no leading or trailing space, single spaces inside
XL_TRIM(c) == IF c.k = "err" THEN c ELSE Str(squeeze(strip(xl_text(c))))

\* UPPER(c)
XL_UPPER(c) == IF c.k = "err" THEN c ELSE Str(upper(xl_text(c)))

\* a = "literal": text comparison, which does not tell upper from lower case
XL_EQ(c, lit) == IF c.k = "err" THEN c ELSE Bool(upper(xl_text(c)) = upper(lit))

\* OR(a, b)
XL_OR(a, b) ==
    IF a.k = "err" THEN a
    ELSE IF b.k = "err" THEN b
         ELSE Bool(a.n = 1 \/ b.n = 1)

\* IF(c, x, y): only the chosen branch is evaluated
XL_IF(c, x, y) == IF c.k = "err" THEN c ELSE IF c.n = 1 THEN x ELSE y

\* IFERROR(v, alt)
XL_IFERROR(v, alt) == IF v.k = "err" THEN alt ELSE v

FedExTrailer == Str(<<"F", "e", "d", "E", "x", " ", "T", "r", "a", "i", "l", "e", "r">>)
SubcoTrailer == Str(<<"S", "u", "b", "c", "o", " ", "T", "r", "a", "i", "l", "e", "r">>)

\* OR(LEFT(id,6)="861861", LEFT(id,5)="86355")
fedex_prefix(id) ==
    XL_OR(XL_EQ(XL_LEFT(id, 6), <<"8", "6", "1", "8", "6", "1">>),
          XL_EQ(XL_LEFT(id, 5), <<"8", "6", "3", "5", "5">>))

\* OR(UPPER(TRIM(id))="UNKNOWN", UPPER(TRIM(id))="UNKOWN")
\* (variant: the misspelling "UNKOWN" is not accepted)
unknown_spelled_one_spelling(id) ==
    XL_OR(XL_EQ(XL_UPPER(XL_TRIM(id)), <<"U", "N", "K", "N", "O", "W", "N">>),
          XL_EQ(XL_UPPER(XL_TRIM(id)), <<"U", "N", "K", "N", "O", "W", "N">>))

unknown_spelled(id) ==
    XL_OR(XL_EQ(XL_UPPER(XL_TRIM(id)), <<"U", "N", "K", "N", "O", "W", "N">>),
          XL_EQ(XL_UPPER(XL_TRIM(id)), <<"U", "N", "K", "O", "W", "N">>))

\* trailer_formula on the row's Active and Historical Equipment ID
trailer_formula(active, historical) ==
    XL_IF(fedex_prefix(active),
          FedExTrailer,
          XL_IF(unknown_spelled(active),
                XL_IF(fedex_prefix(historical), FedExTrailer, SubcoTrailer),
                SubcoTrailer))

\* network_formula on the row's Order Number: IFERROR(LEFT(order,3),"")
\* (variant: LEFT without the IFERROR around it)
network_formula_no_iferror(order) == XL_LEFT(order, 3)

network_formula(order) == XL_IFERROR(XL_LEFT(order, 3), Str(<<>>))

(***************************************************************************)
(* The rows the formulas are evaluated on                                  *)
(***************************************************************************)
IdStems ==
    {<<"8", "6", "1", "8", "6", "1">>,
     <<"8", "6", "3", "5", "5">>,
     <<"8", "6", "1", "8", "6">>,
     <<"8", "6", "3", "5">>,
     <<"U", "N", "K", "N", "O", "W", "N">>,
     <<"U", "N", "K", "O", "W", "N">>,
     <<"u", "n", "k", "n", "o", "w", "n">>,
     <<"U", "n", "k", "o", "w", "n">>,
     <<" ", "U", "N", "K", "N", "O", "W", "N">>, <<"U", "N", "K", "O", "W", "N", " ">>,
     <<"X", "Y", "Z">>, <<>>, <<" ", "8", "6", "1", "8", "6", "1">>}
IdTails == {<<>>, <<"1">>}

\* an ID cell: text, a number (an all-digit column is read as numbers), or blank
IdCells ==
    {NullCell, Num(863551), Num(12)} \cup {Str(p \o t) : p \in IdStems, t \in IdTails}

\* an Order Number cell: text, a number, blank, or an error value
OrderCells ==
    {NullCell, ErrCell, Num(12), Num(12345),
     Str(<<>>), Str(<<"F">>), Str(<<"F", "X">>), Str(<<"F", "X", "1">>),
     Str(<<"F", "X", "1", "2", "3", "4", "5">>)}

ShipmentRows ==
    {[active |-> a, historical |-> h, order |-> o] :
        a \in IdCells, h \in IdCells, o \in OrderCells}

(***************************************************************************)
(* SpecFormula: one table row, recalculated                                *)
(***************************************************************************)
InitFormula ==
    /\ row \in ShipmentRows
    /\ calc = NoCalc
    /\ loc_test_df = [ncols |-> 0, rows |-> <<>>]
    /\ loc_out = PendingOut
    /\ raw_file = None
    /\ criteria_file = None
    /\ loc_test_file = None
    /\ page = EmptyPage

Recalculate ==
    /\ ~calc.done
    /\ calc' = [done |-> TRUE,
                Trailer |-> trailer_formula(row.active, row.historical),
                Network |-> network_formula(row.order)]
    /\ UNCHANGED <<row, loc_test_df, loc_out, raw_file, criteria_file, loc_test_file, page>>

NextFormula == Recalculate

SpecFormula == InitFormula /\ [][NextFormula]_vars

(***************************************************************************)
(* Claims about the formulas (checked under SpecFormula)                   *)
(***************************************************************************)
HasPrefix(t, p) == Len(t) >= Len(p) /\ \A i \in DOMAIN p : t[i] = p[i]
StartsFedEx(c) ==
    \/ HasPrefix(xl_text(c), <<"8", "6", "1", "8", "6", "1">>)
    \/ HasPrefix(xl_text(c), <<"8", "6", "3", "5", "5">>)
SaysUnknown(c) ==
    upper(strip(xl_text(c))) \in
        {<<"U", "N", "K", "N", "O", "W", "N">>, <<"U", "N", "K", "O", "W", "N">>}

\* C7: Trailer is "FedEx Trailer" or "Subco Trailer" on every row, decided in
\* this order: Active ID starts with 861861 or 86355 -> FedEx; else, Active ID
\* trimmed and upper-cased is UNKNOWN or UNKOWN -> FedEx when the Historical ID
\* has one of the two prefixes, Subco when not; else Subco.  The Historical ID
\* changes nothing unless the Active ID is unknown-spelled.
C7_TrailerDecision ==
    calc.done =>
        /\ calc.Trailer \in {FedExTrailer, SubcoTrailer}
        /\ calc.Trailer =
              IF StartsFedEx(row.active) THEN FedExTrailer
              ELSE IF SaysUnknown(row.active)
                   THEN IF StartsFedEx(row.historical) THEN FedExTrailer
                        ELSE SubcoTrailer
                   ELSE SubcoTrailer
        /\ ~SaysUnknown(row.active) =>
              \A h \in IdCells : trailer_formula(row.active, h) = calc.Trailer

\* a recalculated row whose Active ID is the misspelling " UNKOWN"-like text and
\* whose Historical ID carries the 5-character prefix: FedEx by the fallback
C7_Witness ==
    /\ calc.done
    /\ row.active = Str(<<"U", "N", "K", "O", "W", "N", " ">>)
    /\ row.historical = Str(<<"8", "6", "3", "5", "5">> \o <<"1">>)
    /\ calc.Trailer = FedExTrailer

OrderText(c) == xl_text(c)
FirstChars(t, n) == [i \in 1..(IF Len(t) < n THEN Len(t) ELSE n) |-> t[i]]

\* C8 as stated: Network is the first 3 characters of Order Number, and the
\* empty string when Order Number is absent, empty, shorter than 3 characters
\* or an error value.
C8_ShortOrderEmpty ==
    calc.done =>
        IF row.order.k \in {"str", "num"} /\ Len(OrderText(row.order)) >= 3
        THEN calc.Network = Str(FirstChars(OrderText(row.order), 3))
        ELSE calc.Network = Str(<<>>)

\* C8 amended: Network is the first 3 characters of Order Number, the whole
\* Order Number when it has fewer than 3; the empty string when Order Number is
\* absent, empty or an error value; never an error value.
C8_NetworkLeft3 ==
    calc.done =>
        /\ calc.Network.k = "str"
        /\ calc.Network =
              IF row.order.k \in {"str", "num"}
              THEN Str(FirstChars(OrderText(row.order), 3))
              ELSE Str(<<>>)

\* a recalculated row whose Order Number is the two characters "FX"
C8_Witness ==
    /\ calc.done
    /\ row.order = Str(<<"F", "X">>)
    /\ calc.Network = Str(<<"F", "X">>)

\* recalculated rows of the other cases of C8: an error value and a long number
C8_WitnessError ==
    /\ calc.done
    /\ row.order = ErrCell
    /\ calc.Network = Str(<<>>)


(***************************************************************************)
(* main: the uploaded files, read_any_table, validate_columns,             *)
(* build_workbook and the "Generate Excel" button                          *)
(*                                                                         *)
(* A file is [kind, corrupt, sheets]: kind is the extension of its name    *)
(* ("none" when the uploader is empty), corrupt says that pandas cannot    *)
(* parse it, sheets are its tables in order ([name, df]; a CSV has one).   *)
(* The df of a raw sheet is [names, extra]: its named columns in order and *)
(* the count of further columns; of a criteria sheet a tag; of a LOC sheet *)
(* the dataset fill_loc_test_data takes.                                   *)
(***************************************************************************)
REQUIRED_RAW_COLUMNS ==
    <<"Carrier Name", "Order Number", "Active Equipment ID", "Historical Equipment ID">>

\* the nominal width of the raw export (A:AW)
NominalRawColumns == 49

NoneDf == [none |-> TRUE, v |-> <<>>]
Read(v, e)  == [df |-> [none |-> FALSE, v |-> v], err |-> e]
NotRead(e)  == [df |-> NoneDf, err |-> e]

SheetNames(f) == {f.sheets[i].name : i \in DOMAIN f.sheets}
SheetNamed(f, name) == f.sheets[CHOOSE i \in DOMAIN f.sheets : f.sheets[i].name = name]

\* read_any_table: (df, error message or "" for None)
read_any_table(f, expected_sheet_name) ==
    CASE f.kind = "none" -> NotRead("No file uploaded.")
      [] f.corrupt       -> NotRead("Failed to read file")
      [] f.kind = "csv"  -> Read(f.sheets[1].df, "")
      [] f.kind \in {"xlsx", "xls"} ->
            IF expected_sheet_name # "" /\ expected_sheet_name \in SheetNames(f)
            THEN Read(SheetNamed(f, expected_sheet_name).df, "")
            ELSE Read(f.sheets[1].df, "")
      [] OTHER           -> NotRead("Unsupported file type.")

InSeq(x, t) == \E i \in DOMAIN t : t[i] = x

\* validate_columns: the missing names in the order of `needed` (<<>> for None)
\* (variant: only the first missing name is reported)
validate_columns_first_only(df, needed) ==
    LET missing == SelectSeq(needed, LAMBDA c : ~InSeq(c, df.names))
    IN  IF missing = <<>> THEN <<>> ELSE <<missing[1]>>

validate_columns(df, needed) == SelectSeq(needed, LAMBDA c : ~InSeq(c, df.names))

DerivedColumns == <<"Trailer", "Network", "LOC">>

\* build_workbook: the workbook, or the exception of fill_loc_test_data
build_workbook(raw_df, criteria_df, loc_df) ==
    LET out_names == SelectSeq(raw_df.v.names, LAMBDA c : ~InSeq(c, DerivedColumns))
                        \o DerivedColumns
        filled == IF loc_df.none THEN PendingOut ELSE fill_loc_test_data(loc_df.v)
    IN  IF filled.status = "ValueError"
        THEN [raised |-> TRUE, bytes |-> NoBook]
        ELSE [raised |-> FALSE,
              bytes |-> [sheets |-> <<"Criteria", "Shipment Data">>
                                       \o (IF loc_df.none THEN <<>> ELSE <<"LOC test data">>),
                         criteria |-> criteria_df.v,
                         columns |-> out_names,
                         extra |-> raw_df.v.extra,
                         loc |-> filled.df]]

Msg(level, id, names) == [level |-> level, id |-> id, names |-> names]

\* what one run of main renders after the button was clicked
main(raw, criteria, loc) ==
    LET r1 == read_any_table(raw, "")
        r2 == read_any_table(criteria, "Criteria")
        r3 == IF loc.kind = "none" THEN NotRead("") ELSE read_any_table(loc, "LOC test data")
        m0 == IF r3.err # "" THEN <<Msg("warning", "loc_test_note", <<>>)>> ELSE <<>>
        m1 == IF r2.err # "" THEN Append(m0, Msg("warning", "criteria_note", <<>>)) ELSE m0
        missing == validate_columns(r1.df.v, REQUIRED_RAW_COLUMNS)
        m2 == IF Len(r1.df.v.names) + r1.df.v.extra > NominalRawColumns
              THEN Append(m1, Msg("info", "more_than_49_columns", <<>>)) ELSE m1
        wb == build_workbook(r1.df, r2.df, r3.df)
        stop(ms) == [clicked |-> TRUE, messages |-> ms, offered |-> FALSE, data |-> NoBook]
    IN  CASE r1.err # "" -> stop(Append(m0, Msg("error", "raw_file_error", <<>>)))
          [] r1.df.none -> stop(Append(m1, Msg("error", "raw_not_read", <<>>)))
          [] r2.df.none -> stop(Append(m1, Msg("error", "criteria_not_read", <<>>)))
          [] missing # <<>> -> stop(Append(m1, Msg("error", "missing_columns", missing)))
          [] wb.raised -> stop(Append(m2, Msg("error", "something_went_wrong", <<>>)))
          [] OTHER ->
                [clicked |-> TRUE,
                 messages |-> Append(m2, Msg("success", "excel_built", <<>>)),
                 offered |-> TRUE,
                 data |-> wb.bytes]

(***************************************************************************)
(* The files a user can put into the three uploaders                       *)
(***************************************************************************)
Csv(df) == [kind |-> "csv", corrupt |-> FALSE, sheets |-> <<[name |-> "", df |-> df]>>]
Xlsx(sheets) == [kind |-> "xlsx", corrupt |-> FALSE, sheets |-> sheets]
Corrupt(kind) == [kind |-> kind, corrupt |-> TRUE, sheets |-> <<>>]

\* raw exports: every subset of the required columns, narrow and wider than
\* A:AW, with and without a LOC column of their own
RawDfs ==
    {[names |-> SelectSeq(REQUIRED_RAW_COLUMNS, LAMBDA c : c \in S), extra |-> e] :
        S \in SUBSET {REQUIRED_RAW_COLUMNS[i] : i \in DOMAIN REQUIRED_RAW_COLUMNS},
        e \in {0, NominalRawColumns - 4, NominalRawColumns - 3}}
    \cup {[names |-> <<"LOC">> \o REQUIRED_RAW_COLUMNS, extra |-> 0]}

RawFiles ==
    {Csv(d) : d \in RawDfs}
    \cup {Corrupt("csv"),
          Xlsx(<<[name |-> "Sheet1", df |-> [names |-> REQUIRED_RAW_COLUMNS, extra |-> 0]]>>)}

CriteriaFiles ==
    {Csv("csv"), Corrupt("xlsx"),
     Xlsx(<<[name |-> "Criteria", df |-> "Criteria"]>>),
     Xlsx(<<[name |-> "Sheet1", df |-> "Sheet1"]>>),
     Xlsx(<<[name |-> "Sheet1", df |-> "Sheet1"], [name |-> "Criteria", df |-> "Criteria"]>>)}

\* LOC test data tables: too narrow, filled without trouble, and one whose base
\* rows repeat a key with other counts
GoodRow ==
    MakeRow([c0 |-> Str(<<"a">>), c1 |-> Str(<<"x">>), c2 |-> Num(1), c3 |-> Num(1),
             c4 |-> Num(2)],
            [c8 |-> Str(<<" ", "A">>), c9 |-> Str(<<"X", " ">>)])
OtherCountsRow ==
    MakeRow([c0 |-> Str(<<"a">>), c1 |-> Str(<<"x">>), c2 |-> Num(2), c3 |-> Num(0),
             c4 |-> Num(2)],
            [c8 |-> Str(<<"b">>), c9 |-> Str(<<"x">>)])

LocDfs ==
    {[ncols |-> MinLocColumns - 4, rows |-> <<NarrowRow>>],
     [ncols |-> MinLocColumns - 1, rows |-> <<NarrowRow>>],
     [ncols |-> MinLocColumns, rows |-> <<GoodRow>>],
     [ncols |-> MinLocColumns, rows |-> <<GoodRow, OtherCountsRow>>]}

LocFiles ==
    {Corrupt("xlsx")}
    \cup {Csv(d) : d \in LocDfs}
    \cup {Xlsx(<<[name |-> "LOC test data", df |-> d]>>) : d \in LocDfs}
    \cup {Xlsx(<<[name |-> "Sheet1", df |-> d]>>) : d \in LocDfs}
    \cup {Xlsx(<<[name |-> "Sheet1", df |-> d.a], [name |-> "LOC test data", df |-> d.b]>>) :
            d \in {[a |-> x, b |-> y] : x \in LocDfs, y \in LocDfs}}

(***************************************************************************)
(* SpecMain: uploads and clicks.  Any upload reruns the script with the    *)
(* button unpressed, so the page shows no result until the next click.     *)
(***************************************************************************)
InitMain ==
    /\ raw_file = None
    /\ criteria_file = None
    /\ loc_test_file = None
    /\ page = EmptyPage
    /\ loc_test_df = [ncols |-> 0, rows |-> <<>>]
    /\ loc_out = PendingOut
    /\ row = NoRow
    /\ calc = NoCalc

UploadRaw ==
    /\ \E f \in RawFiles \cup {None} : raw_file' = f
    /\ page' = EmptyPage
    /\ UNCHANGED <<criteria_file, loc_test_file, loc_test_df, loc_out, row, calc>>

UploadCriteria ==
    /\ \E f \in CriteriaFiles \cup {None} : criteria_file' = f
    /\ page' = EmptyPage
    /\ UNCHANGED <<raw_file, loc_test_file, loc_test_df, loc_out, row, calc>>

UploadLocTest ==
    /\ \E f \in LocFiles \cup {None} : loc_test_file' = f
    /\ page' = EmptyPage
    /\ UNCHANGED <<raw_file, criteria_file, loc_test_df, loc_out, row, calc>>

GenerateExcel ==
    /\ page' = main(raw_file, criteria_file, loc_test_file)
    /\ UNCHANGED <<raw_file, criteria_file, loc_test_file, loc_test_df, loc_out, row, calc>>

NextMain == UploadRaw \/ UploadCriteria \/ UploadLocTest \/ GenerateExcel

SpecMain == InitMain /\ [][NextMain]_vars


(***************************************************************************)
(* Claims about main (checked under SpecMain)                              *)
(***************************************************************************)
WasRead(f) == f.kind # "none" /\ ~f.corrupt
RawDf == raw_file.sheets[1].df
MissingSet ==
    {REQUIRED_RAW_COLUMNS[i] : i \in DOMAIN REQUIRED_RAW_COLUMNS}
        \ {RawDf.names[i] : i \in DOMAIN RawDf.names}
\* the table of the LOC test data file that was read
LocDf ==
    IF loc_test_file.kind = "xlsx" /\ "LOC test data" \in SheetNames(loc_test_file)
    THEN SheetNamed(loc_test_file, "LOC test data").df
    ELSE loc_test_file.sheets[1].df
Errors == SelectSeq(page.messages, LAMBDA m : m.level = "error")
Shown(id) == \E i \in DOMAIN page.messages : page.messages[i].id = id
EndsWithError ==
    page.messages # <<>> /\ page.messages[Len(page.messages)].level = "error"
\* the one error of the run names exactly the missing columns
OneDiagnosticNamingMissing ==
    /\ Len(Errors) = 1
    /\ Errors[1].id = "missing_columns"
    /\ {Errors[1].names[i] : i \in DOMAIN Errors[1].names} = MissingSet
    /\ Len(Errors[1].names) = Cardinality(MissingSet)
    /\ EndsWithError

DownloadOnlyOnGoodInput ==
    page.offered =>
        /\ WasRead(raw_file)
        /\ MissingSet = {}
        /\ WasRead(loc_test_file) => LocDf.ncols >= MinLocColumns

NarrowLocRejected ==
    (WasRead(loc_test_file) /\ LocDf.ncols < MinLocColumns) =>
        ~page.offered /\ EndsWithError

\* C9 as stated: the download is offered only if the raw export was read, has
\* the four required columns and the LOC test data (when read) has 14 columns;
\* with required columns missing the run ends with one diagnostic naming every
\* missing column; with a LOC test data of fewer than 14 columns it ends with
\* an error; in both cases nothing is offered.
C9_MissingAlwaysDiagnosed ==
    page.clicked =>
        /\ DownloadOnlyOnGoodInput
        /\ (WasRead(raw_file) /\ MissingSet # {}) =>
              ~page.offered /\ OneDiagnosticNamingMissing
        /\ NarrowLocRejected

\* C9 amended: the same, the missing-column diagnostic being given in the
\* runs in which the criteria file was read too (without it the run ends with
\* the criteria error, before the columns are validated).
C9_NoArtifactOnBadInput ==
    page.clicked =>
        /\ DownloadOnlyOnGoodInput
        /\ (WasRead(raw_file) /\ MissingSet # {}) => ~page.offered
        /\ (WasRead(raw_file) /\ WasRead(criteria_file) /\ MissingSet # {}) =>
              OneDiagnosticNamingMissing
        /\ NarrowLocRejected

\* a run on a raw export lacking two or more required columns, criteria read
C9_Witness ==
    /\ page.clicked
    /\ WasRead(raw_file)
    /\ WasRead(criteria_file)
    /\ Cardinality(MissingSet) >= 2
    /\ ~page.offered
    /\ Shown("missing_columns")

\* a run on good raw and criteria files whose LOC test data has 10 columns
C9_WitnessNarrowLoc ==
    /\ page.clicked
    /\ WasRead(raw_file) /\ MissingSet = {}
    /\ WasRead(criteria_file)
    /\ WasRead(loc_test_file) /\ LocDf.ncols = MinLocColumns - 4
    /\ ~page.offered
    /\ Shown("something_went_wrong")

FellBack(f, expected) ==
    f.kind \in {"xlsx", "xls"} /\ ~f.corrupt /\ expected \notin SheetNames(f)

\* C10: in a run that got past the raw export, a criteria or LOC test data
\* workbook without its expected sheet is read from its first sheet, the user
\* is warned of that, and the run goes on; and the warning is shown only in
\* runs in which the first sheet was used.
C10_FallbackWarned ==
    (page.clicked /\ WasRead(raw_file)) =>
        /\ FellBack(criteria_file, "Criteria") <=> Shown("criteria_note")
        /\ FellBack(loc_test_file, "LOC test data") <=> Shown("loc_test_note")
        /\ (FellBack(criteria_file, "Criteria") /\ page.offered) =>
              page.data.criteria = criteria_file.sheets[1].df

\* the part of C10 the code does: the first sheet is what a run without the
\* expected sheet reads
C10_FirstSheetRead ==
    (page.clicked /\ page.offered /\ FellBack(criteria_file, "Criteria")) =>
        page.data.criteria = criteria_file.sheets[1].df

=============================================================================
